---- MODULE Spec2Model ----
(***************************************************************************)
(* Model of the helm dependency resolver of k8s.py: class Chart            *)
(* (find_one_source, update_dependencies, get_dependencies_with_helm,      *)
(* resolve_subcharts, clean_dependencies, package) and the command         *)
(* helm_dependency_update.                                                 *)
(*                                                                         *)
(* Strings are sequences of one-character strings, so that startswith,     *)
(* endswith and the ".tgz" suffix handling are computed as Python does.    *)
(* A directory tree is a record; a charts/ directory is a record           *)
(* [exists, entries] with entries a function from file name to             *)
(* [kind, tree]; the tree of a "file" entry is the content of the archive  *)
(* (its single top-level directory).                                       *)
(***************************************************************************)
EXTENDS Integers, Sequences, FiniteSets, TLC

\* ---------------------------------------------------------------- bounds
\* the external calls (helm, tarfile) numbered 1..MaxFail can be made to fail
MaxFail == 2
\* depth of nested update_dependencies calls before the interpreter gives up
RecursionLimit == 3

\* ------------------------------------------------------------ characters
TGZ == <<".", "t", "g", "z">>
DASH == <<"-">>

\* str.startswith
startswith(s, p) == Len(p) <= Len(s) /\ SubSeq(s, 1, Len(p)) = p

\* str.endswith
endswith(s, p) == Len(p) <= Len(s) /\ SubSeq(s, Len(s) - Len(p) + 1, Len(s)) = p

\* file.name[:-len(".tgz")]
strip_ext(f) == SubSeq(f, 1, Len(f) - Len(TGZ))

\* Chart.compute_name: f'{metadata["name"]}-{metadata["version"]}'
compute_name(metadata) == metadata.name \o DASH \o metadata.version

\* f"{self.compute_name(dependency)}.tgz"
archive_name(metadata) == compute_name(metadata) \o TGZ

\* ----------------------------------------------------------- directories
NoEntries == [f \in {} |-> f]
NoDir == [exists |-> FALSE, entries |-> NoEntries]
EmptyDir == [exists |-> TRUE, entries |-> NoEntries]

\* makedirs(dir): create the directory when it is missing
makedirs(dir) == [dir EXCEPT !.exists = TRUE]

\* write (or overwrite) the entry called f
put(dir, f, e) ==
  [exists |-> TRUE,
   entries |-> [n \in DOMAIN dir.entries \cup {f} |-> IF n = f THEN e ELSE dir.entries[n]]]

\* rm(path)
rm(dir, f) ==
  [dir EXCEPT !.entries = [n \in DOMAIN dir.entries \ {f} |-> dir.entries[n]]]

\* (dir / f).exists()
exists(dir, f) == dir.exists /\ f \in DOMAIN dir.entries

File(tree) == [kind |-> "file", tree |-> tree]
Dir(tree) == [kind |-> "dir", tree |-> tree]

\* a chart directory: Chart.yaml (name, version, dependencies) and charts/
ChartDir(name, version, deps, charts) ==
  [manifest |-> TRUE, name |-> name, version |-> version, dependencies |-> deps,
   charts |-> charts]

\* a directory without Chart.yaml
PlainDir(charts) ==
  [manifest |-> FALSE, name |-> <<>>, version |-> <<>>, dependencies |-> <<>>,
   charts |-> charts]

Dep(name, version) == [name |-> name, version |-> version]

\* Chart.name, as set by Chart.__init__: the name-version string
chart_name(tree) == compute_name(tree)

\* Chart.dependencies_fullnames
dependencies_fullnames(tree) ==
  [i \in 1..Len(tree.dependencies) |-> compute_name(tree.dependencies[i])]

\* the elements of a finite set, in one fixed order
RECURSIVE SetToSeq(_)
SetToSeq(S) ==
  IF S = {} THEN <<>>
  ELSE LET x == CHOOSE y \in S : TRUE IN <<x>> \o SetToSeq(S \ {x})

RECURSIVE Factorial(_)
Factorial(n) == IF n <= 1 THEN 1 ELSE n * Factorial(n - 1)

\* the elements of a finite set in the order an iteration meets them: the
\* order of a Python set or of iterdir() is not specified, and k, in
\* 0..Factorial(Cardinality(S)) - 1, picks one of all the orders of S
RECURSIVE iteration(_, _)
iteration(S, k) ==
  IF S = {} THEN <<>>
  ELSE LET x == SetToSeq(S)[(k % Cardinality(S)) + 1] IN
       <<x>> \o iteration(S \ {x}, k \div Cardinality(S))

Range(s) == {s[i] : i \in 1..Len(s)}

\* ------------------------------------------------------- interpreter state
\* st: the disk (location -> directory tree), the events of the running
\* command, the pending exception, the number of external calls made, the
\* value returned by the last completed call, the set returned by the
\* last get_dependencies_with_helm, the number of scratch directories that
\* exist and the number made so far.
\* cfg: the inputs of the command: srcs (locations of the --package charts),
\* force, failAt (the external call that fails, 0 for none).
\* The orders of the iterations over sets and directory listings are the
\* choices of st: the i-th iteration over two elements or more takes its
\* order from choices[i], and order 0 when choices is shorter; used counts
\* these iterations, and asks lists, for each of them that found no choice,
\* the number of elements it went over.
Ev(op, loc, from, arg) == [op |-> op, loc |-> loc, from |-> from, arg |-> arg]

Log(st, ev) == [st EXCEPT !.trace = Append(@, ev)]

Fail(st, e) == [st EXCEPT !.err = e]

\* the state once an iteration over the set S has started
iterating(st, S) ==
  IF Cardinality(S) < 2 THEN st
  ELSE IF st.used < Len(st.choices) THEN [st EXCEPT !.used = @ + 1]
  ELSE [st EXCEPT !.used = @ + 1, !.asks = Append(@, Cardinality(S))]

\* the order in which an iteration that starts in st meets the set S
order(st, S) ==
  IF Cardinality(S) < 2 \/ st.used >= Len(st.choices) THEN iteration(S, 0)
  ELSE iteration(S, st.choices[st.used + 1])

\* an external program or library call: it fails when it is the failAt-th
Called(st) == [st EXCEPT !.ncalls = @ + 1]
Fails(st, cfg) == st.ncalls + 1 = cfg.failAt

\* tempdir() of clk.lib, entered: a new scratch directory exists
tempdir_enter(st) == [st EXCEPT !.scratch = @ + 1, !.made = @ + 1]

\* tempdir() of clk.lib, left: the scratch directory is removed
tempdir_exit(st) == [st EXCEPT !.scratch = @ - 1]

\* a with block that removes its scratch directory on normal exit only
leave_with_on_return(st) == IF st.err = "none" THEN tempdir_exit(st) ELSE st

\* the end of a "with tempdir() as d:" block: the context manager is left
\* when the block returns and when an exception leaves it
leave_with(st) == tempdir_exit(st)

\* ---------------------------------------------------------------- Chart
\* a matching that accepts the exact name of a dependency only
match_exactly(tree, name) ==
  SelectSeq(dependencies_fullnames(tree), LAMBDA dependency : dependency = name)

\* Chart.match_to_dependencies
match_to_dependencies(tree, name) ==
  SelectSeq(dependencies_fullnames(tree), LAMBDA dependency : startswith(dependency, name))

\* a matching rule that compares with the unversioned name of the source
source_matches_unversioned(dependency, srcs, disk) ==
  {s \in srcs : startswith(dependency, disk[s].name)}

\* the list comprehension of Chart.find_one_source: the sources whose name
\* (name-version) the dependency starts with
source_matches(dependency, srcs, disk) ==
  {s \in srcs : startswith(dependency, chart_name(disk[s]))}

\* a lookup that silently takes one of several matching sources
find_first_source(dependency, srcs, disk) ==
  LET match == source_matches(dependency, srcs, disk) IN
  IF match = {} THEN [kind |-> "none", src |-> "none"]
  ELSE [kind |-> "one", src |-> CHOOSE s \in match : TRUE]

\* Chart.find_one_source: "many" raises NotImplementedError, "none" is None
find_one_source(dependency, srcs, disk) ==
  LET match == source_matches(dependency, srcs, disk) IN
  IF Cardinality(match) > 1 THEN [kind |-> "many", src |-> "none"]
  ELSE IF match = {} THEN [kind |-> "none", src |-> "none"]
  ELSE [kind |-> "one", src |-> CHOOSE s \in match : TRUE]

\* a packaging that leaves the archive outside the directory asked for
package_elsewhere(st, cfg, tree, from, loc) ==
  LET st1 == Log(Called(st), Ev("package", loc, from, <<archive_name(tree)>>)) IN
  IF Fails(st, cfg) THEN Fail(st1, "CalledProcessError") ELSE st1

\* Chart.package(directory): helm package writes <name>-<version>.tgz, holding
\* the chart directory, into directory (the charts/ of the chart at loc)
package(st, cfg, tree, from, loc) ==
  LET f == archive_name(tree)
      st1 == Log(Called(st), Ev("package", loc, from, <<f>>)) IN
  IF Fails(st, cfg) THEN Fail(st1, "CalledProcessError")
  ELSE [st1 EXCEPT !.disk[loc].charts = put(@, f, File(tree))]

\* what the chart repository serves for a dependency: the chart of that name
\* and version; the chart "a" embeds the chart b-1, which embeds c-1
RemoteChart(dep) ==
  LET c == ChartDir(<<"c">>, <<"1">>, <<>>, NoDir)
      b == ChartDir(<<"b">>, <<"1">>, <<Dep(<<"c">>, <<"1">>)>>,
                    put(EmptyDir, <<"c">>, Dir(c))) IN
  IF dep.name = <<"a">>
  THEN ChartDir(dep.name, dep.version, <<Dep(<<"b">>, <<"1">>)>>,
                put(EmptyDir, <<"b">>, Dir(b)))
  ELSE ChartDir(dep.name, dep.version, <<>>, NoDir)

\* the loop of get_dependencies_with_helm that moves the generated archives
\* into self.subcharts_dir (makedirs; rm when present; move)
RECURSIVE move_generated(_, _, _)
move_generated(charts, deps, i) ==
  IF i > Len(deps) THEN charts
  ELSE LET f == archive_name(deps[i])
           made == makedirs(charts)
           cleared == IF exists(made, f) THEN rm(made, f) ELSE made
       IN move_generated(put(cleared, f, File(RemoteChart(deps[i]))), deps, i + 1)

\* a fetcher that goes on when helm dependency update has failed
get_dependencies_with_helm_unchecked(st, cfg, loc, deps_to_update) ==
  LET names == [i \in 1..Len(deps_to_update) |-> compute_name(deps_to_update[i])]
      st1 == Log(Called(tempdir_enter(st)), Ev("fetch", loc, "helm", names)) IN
  IF Fails(st, cfg) THEN leave_with([st1 EXCEPT !.generated = {}])
  ELSE leave_with(
         [st1 EXCEPT !.disk[loc].charts = move_generated(@, deps_to_update, 1),
                     !.generated = {archive_name(deps_to_update[i]) : i \in 1..Len(deps_to_update)}])

\* Chart.get_dependencies_with_helm: one helm dependency update for the batch
get_dependencies_with_helm(st, cfg, loc, deps_to_update) ==
  LET names == [i \in 1..Len(deps_to_update) |-> compute_name(deps_to_update[i])]
      st1 == Log(Called(tempdir_enter(st)), Ev("fetch", loc, "helm", names)) IN
  IF Fails(st, cfg) THEN leave_with(Fail(st1, "CalledProcessError"))
  ELSE leave_with(
         [st1 EXCEPT !.disk[loc].charts = move_generated(@, deps_to_update, 1),
                     !.generated = {archive_name(deps_to_update[i]) : i \in 1..Len(deps_to_update)}])

\* ------------------------------------------------------------ substituter
\* Chart.resolve_subcharts on an extracted tree. The result is
\* [tree, updated, err, events, choices, used, asks]: the tree after the
\* substitutions, the value returned, the exception raised ("none" when it
\* returns), the directories loaded and substituted, each named by its path
\* below the extracted chart, and the orders of the iterations as in st.
\* a constructor that takes any directory for a chart
Chart_unchecked(tree) == "none"

\* Chart.__init__ on the directory tree: the exception it raises, "none"
\* when the directory holds Chart.yaml
Chart_init(tree) == IF tree.manifest THEN "none" ELSE "UsageError"

\* a substituter that forgets the changes made below a subchart it kept
merge_updated_lost(below, updated) == updated

\* updated = subchart.resolve_subcharts(...) or updated
merge_updated(below, updated) == below \/ updated

RECURSIVE resolve_subcharts(_, _, _, _, _)
RECURSIVE subcharts_loop(_, _, _, _, _, _)
subcharts_loop(r, names, i, srcs, disk, path) ==
  IF i > Len(names) \/ r.err # "none" THEN r
  ELSE
    LET n == names[i]
        e == r.tree.charts.entries[n]
        here == Append(path, n)
        loaded == [r EXCEPT !.events = Append(@, Ev("load", "scratch", "none", here))]
        src == find_one_source(chart_name(e.tree), srcs, disk)
        sub == resolve_subcharts(e.tree, srcs, disk, r, here)
    IN
    IF e.kind # "dir" THEN subcharts_loop(r, names, i + 1, srcs, disk, path)
    ELSE IF Chart_init(e.tree) # "none" THEN [loaded EXCEPT !.err = Chart_init(e.tree)]
    ELSE IF src.kind = "many" THEN [loaded EXCEPT !.err = "NotImplementedError"]
    ELSE IF src.kind = "one" THEN
      subcharts_loop(
        [loaded EXCEPT !.tree.charts = put(rm(@, n), n, Dir(disk[src.src])),
                       !.updated = TRUE,
                       !.events = Append(@, Ev("substitute", "scratch", src.src, here))],
        names, i + 1, srcs, disk, path)
    ELSE
      subcharts_loop(
        [sub EXCEPT !.tree = [r.tree EXCEPT !.charts = put(@, n, Dir(sub.tree))],
                    !.updated = merge_updated(sub.updated, r.updated),
                    !.events = loaded.events \o sub.events],
        names, i + 1, srcs, disk, path)

\* the substituter as it starts on a chart: st gives the choices of orders
\* and how many of them are used
subcharts_start(tree, st) ==
  [tree |-> tree, updated |-> FALSE, err |-> "none", events |-> <<>>,
   choices |-> st.choices, used |-> st.used, asks |-> st.asks]

\* a substituter that looks at the subcharts of the extracted chart only
resolve_subcharts_shallow(tree, srcs, disk, st, path) ==
  LET r0 == subcharts_start(tree, st) IN
  IF ~tree.charts.exists \/ path # <<>> THEN r0
  ELSE subcharts_loop(iterating(r0, DOMAIN tree.charts.entries),
                      order(r0, DOMAIN tree.charts.entries), 1, srcs, disk, path)

resolve_subcharts(tree, srcs, disk, st, path) ==
  LET r0 == subcharts_start(tree, st) IN
  IF ~tree.charts.exists THEN r0
  ELSE subcharts_loop(iterating(r0, DOMAIN tree.charts.entries),
                      order(r0, DOMAIN tree.charts.entries), 1, srcs, disk, path)

\* --------------------------------------------------------------- resolver
\* a batch that grows at the front
batch_prepend(to_fetch_with_helm, dependency) == <<dependency>> \o to_fetch_with_helm

\* to_fetch_with_helm.append(dependency)
batch_append(to_fetch_with_helm, dependency) == Append(to_fetch_with_helm, dependency)

\* a branch order that lets force win over a matching source
branch_force_first(matched, force, present) ==
  IF force THEN "fetch"
  ELSE IF matched THEN "source"
  ELSE IF present THEN "resolve"
  ELSE "fetch"

\* a branch order that lets an archive on disk win over force
branch_present_first(matched, force, present) ==
  IF matched THEN "source"
  ELSE IF present THEN "resolve"
  ELSE "fetch"

\* the branch update_dependencies takes for one dependency
\* (if src is not None / elif force / elif exists / else)
branch(matched, force, present) ==
  IF matched THEN "source"
  ELSE IF force THEN "fetch"
  ELSE IF present THEN "resolve"
  ELSE "fetch"

\* the body of the loop over generated_dependencies | to_resolve once the
\* archive called f is extracted and resolve_subcharts has given r
resolved_subcharts(opened, cfg, loc, f, r) ==
  LET walked == [opened EXCEPT !.trace = @ \o r.events, !.used = r.used, !.asks = r.asks] IN
  IF r.err # "none" THEN Fail(walked, r.err)
  ELSE IF r.updated
  THEN package(Log([walked EXCEPT !.disk[loc].charts = rm(@, f)], Ev("rm", loc, "none", <<f>>)),
               cfg, r.tree, "scratch", loc)
  ELSE walked

\* the body of the loop over generated_dependencies | to_resolve, for the
\* archive called f of the chart at loc
recheck_one(st, cfg, loc, f) ==
  LET opened == Log(Called(st), Ev("extract", loc, "none", <<f>>))
      extracted == st.disk[loc].charts.entries[f].tree
  IN
  IF ~exists(st.disk[loc].charts, f) THEN Fail(opened, "FileNotFoundError")
  ELSE IF Fails(st, cfg) THEN Fail(opened, "ReadError")
  ELSE IF Chart_init(extracted) # "none" THEN Fail(opened, Chart_init(extracted))
  ELSE resolved_subcharts(opened, cfg, loc, f,
                          resolve_subcharts(extracted, cfg.srcs, st.disk, st, <<>>))

RECURSIVE recheck_loop(_, _, _, _, _)
recheck_loop(st, cfg, loc, names, j) ==
  IF j > Len(names) \/ st.err # "none" THEN st
  ELSE recheck_loop(recheck_one(st, cfg, loc, names[j]), cfg, loc, names, j + 1)

\* a return value that is set only by the source branch
returned_flag_kept(todo, updated) == updated

\* the value update_dependencies returns: True once there was an archive to
\* re-check (updated = True at the end of the if block), else what the
\* loop over the dependencies left
returned_flag(todo, updated) == IF todo # {} THEN TRUE ELSE updated

\* a re-check that opens the fetched archives only
recheck_set_fetched_only(generated_dependencies, to_resolve) == generated_dependencies

\* the archives the loop of the re-check goes over:
\* generated_dependencies | to_resolve
recheck_set(generated_dependencies, to_resolve) == generated_dependencies \cup to_resolve

\* the with block of the re-check, entered in the state inside: the loop
\* over the archives of todo, in the order the iteration over the set takes
recheck(inside, cfg, loc, todo) ==
  leave_with(recheck_loop(iterating(inside, todo), cfg, loc, order(inside, todo), 1))

\* return updated
return_updated(st, loc, updated) ==
  [Log(st, Ev("return", loc, "none", <<>>)) EXCEPT !.updated = updated]

\* update_dependencies after the with block of the re-check
after_recheck(checked, loc, updated) ==
  IF checked.err # "none" THEN checked ELSE return_updated(checked, loc, updated)

\* update_dependencies after the batched fetch
after_fetch(fetched, cfg, loc, to_resolve, updated) ==
  IF fetched.err # "none" THEN fetched
  ELSE IF fetched.generated \cup to_resolve # {}
  THEN after_recheck(
         recheck(Log(tempdir_enter(fetched),
                     Ev("recheck", loc, "none",
                        SetToSeq(recheck_set(fetched.generated, to_resolve)))),
                 cfg, loc, recheck_set(fetched.generated, to_resolve)),
         loc, returned_flag(fetched.generated \cup to_resolve, updated))
  ELSE return_updated(fetched, loc, returned_flag(fetched.generated \cup to_resolve, updated))

\* update_dependencies after its loop over the dependencies: the batched
\* fetch, the re-check of the fetched and of the already present archives,
\* and the return
after_loop(st, cfg, loc, to_fetch_with_helm, to_resolve, updated) ==
  after_fetch(IF to_fetch_with_helm # <<>>
              THEN get_dependencies_with_helm(st, cfg, loc, to_fetch_with_helm)
              ELSE [st EXCEPT !.generated = {}],
              cfg, loc, to_resolve, updated)

\* the entry of update_dependencies on the chart at loc: charts/ is made
\* when the chart declares dependencies
entered(st, loc) ==
  Log(IF st.disk[loc].dependencies # <<>>
      THEN [st EXCEPT !.disk[loc].charts = makedirs(@)]
      ELSE st,
      Ev("call", loc, "none", <<>>))

RECURSIVE update_dependencies(_, _, _, _)
\* a recursive call that drops force
recursive_call_unforced(cfg) == [cfg EXCEPT !.force = FALSE]

\* the arguments of src.update_dependencies(subchart_sources, force=force)
recursive_call(cfg) == cfg

\* a recursive call made on the chart itself
callee_self(src, loc) == loc

\* the chart the recursive call is made on: src.update_dependencies(...)
callee(src, loc) == src

\* a resolver that packages the source before it resolves it
package_then_resolve(st, cfg, src, loc, depth) ==
  update_dependencies(package(st, cfg, st.disk[src], src, loc),
                      recursive_call(cfg), callee(src, loc), depth + 1)

\* src.update_dependencies(...) and, once it has returned, src.package(...)
resolve_then_package(st, cfg, src, loc, depth) ==
  LET inner == update_dependencies(st, recursive_call(cfg), callee(src, loc), depth + 1) IN
  IF inner.err # "none" THEN inner
  ELSE package(inner, cfg, inner.disk[src], src, loc)

\* the head of one iteration of the loop over self.dependencies, at the
\* i-th dependency of the chart at loc: the dependency, the result of
\* find_one_source, the state once the lookup is done and the branch taken
\* ("many" when find_one_source raises)
iteration_head(st, cfg, loc, i) ==
  LET chart == st.disk[loc]
      dependency == chart.dependencies[i]
      src == find_one_source(compute_name(dependency), cfg.srcs, st.disk)
  IN
  [dependency |-> dependency,
   dependency_name |-> archive_name(dependency),
   src |-> src,
   seen |-> Log(st, Ev("dependency", loc, IF src.kind = "one" THEN src.src ELSE src.kind,
                       <<compute_name(dependency)>>)),
   how |-> IF src.kind = "many" THEN "many"
           ELSE branch(src.kind = "one", cfg.force,
                       exists(chart.charts, archive_name(dependency)))]

RECURSIVE dependency_loop(_, _, _, _, _, _, _, _)
dependency_loop(st, cfg, loc, depth, i, to_fetch_with_helm, to_resolve, updated) ==
  IF st.err # "none" THEN st
  ELSE IF i > Len(st.disk[loc].dependencies)
  THEN after_loop(st, cfg, loc, to_fetch_with_helm, to_resolve, updated)
  ELSE
    LET h == iteration_head(st, cfg, loc, i) IN
    IF h.how = "many" THEN Fail(h.seen, "NotImplementedError")
    ELSE IF h.how = "source" THEN
      dependency_loop(resolve_then_package(h.seen, cfg, h.src.src, loc, depth),
                      cfg, loc, depth, i + 1, to_fetch_with_helm, to_resolve, TRUE)
    ELSE IF h.how = "fetch" THEN
      dependency_loop(h.seen, cfg, loc, depth, i + 1,
                      batch_append(to_fetch_with_helm, h.dependency), to_resolve, updated)
    ELSE
      dependency_loop(h.seen, cfg, loc, depth, i + 1,
                      to_fetch_with_helm, to_resolve \cup {h.dependency_name}, updated)

\* Chart.update_dependencies(subchart_sources, force) of the chart at loc
update_dependencies(st, cfg, loc, depth) ==
  IF depth > RecursionLimit THEN Fail(st, "RecursionError")
  ELSE dependency_loop(entered(st, loc), cfg, loc, depth, 1, <<>>, {}, FALSE)

\* ---------------------------------------------------------------- cleaner
\* the test of Chart.clean_dependencies on one directory entry
to_clean(tree, f) ==
  endswith(f, TGZ) /\ match_to_dependencies(tree, strip_ext(f)) = <<>>

RECURSIVE clean_loop(_, _, _, _)
clean_loop(st, loc, names, i) ==
  IF i > Len(names) THEN st
  ELSE IF to_clean(st.disk[loc], names[i])
  THEN clean_loop(Log([st EXCEPT !.disk[loc].charts = rm(@, names[i])],
                      Ev("clean", loc, "none", <<names[i]>>)),
                  loc, names, i + 1)
  ELSE clean_loop(st, loc, names, i + 1)

\* self.subcharts_dir.iterdir(): the cleaner starts to list the directory
listing(st, loc) == Log(st, Ev("iterdir", loc, "none", <<>>))

\* a cleaner that stops after the first archive it removed
clean_first_only(st, cfg, loc) ==
  LET names == order(listing(st, loc), DOMAIN st.disk[loc].charts.entries)
      stale == SelectSeq(names, LAMBDA f : to_clean(st.disk[loc], f))
      listed == iterating(listing(st, loc), DOMAIN st.disk[loc].charts.entries) IN
  IF ~st.disk[loc].charts.exists THEN Fail(listing(st, loc), "FileNotFoundError")
  ELSE IF stale = <<>> THEN listed
  ELSE clean_loop(listed, loc, <<stale[1]>>, 1)

\* Chart.clean_dependencies; iterdir() of a missing directory raises
clean_dependencies(st, cfg, loc) ==
  IF ~st.disk[loc].charts.exists THEN Fail(listing(st, loc), "FileNotFoundError")
  ELSE clean_loop(iterating(listing(st, loc), DOMAIN st.disk[loc].charts.entries), loc,
                  order(listing(st, loc), DOMAIN st.disk[loc].charts.entries), 1)

\* ---------------------------------------------------------------- command
\* a command that cleans whether --remove was given or not, and goes on to
\* clean after a failed update
helm_dependency_update_always_clean(st, cfg) ==
  LET resolved == update_dependencies(st, cfg, "root", 1)
      cleaned == clean_dependencies([resolved EXCEPT !.err = "none"], cfg, "root")
  IN
  IF cleaned.err # "none" THEN cleaned
  ELSE IF cfg.touch /\ resolved.updated
  THEN Log(cleaned, Ev("touch", "root", "none", <<>>))
  ELSE cleaned

\* helm_dependency_update(chart, force, touch, experimental_oci,
\* subchart_sources, remove) on the chart at "root"
helm_dependency_update(st, cfg) ==
  LET resolved == update_dependencies(st, cfg, "root", 1)
      cleaned == IF cfg.remove THEN clean_dependencies(resolved, cfg, "root") ELSE resolved
  IN
  IF resolved.err # "none" THEN resolved
  ELSE IF cleaned.err # "none" THEN cleaned
  ELSE IF cfg.touch /\ resolved.updated
  THEN Log(cleaned, Ev("touch", "root", "none", <<>>))
  ELSE cleaned

\* ------------------------------------------------------------------ inputs
A == <<"a">>
B == <<"b">>
C == <<"c">>
Y == <<"y">>
R == <<"r">>
V1 == <<"1">>
V10 == <<"1", "0">>
V2 == <<"2">>

\* the dependency lists of the root chart
RootDependencies ==
  { <<>>,
    <<Dep(A, V1)>>,
    <<Dep(A, V1), Dep(A, V10)>>,
    <<Dep(B, V1)>>,
    <<Dep(A, V1), Dep(B, V1)>>,
    <<Dep(B, V1), Dep(A, V10)>> }

\* archive files found in the charts/ of the root chart
Archive(dep) == [name |-> archive_name(dep), entry |-> File(RemoteChart(dep))]
BrokenArchive(dep) == [name |-> archive_name(dep), entry |-> File(PlainDir(NoDir))]

DirOf(files) == [exists |-> TRUE,
                 entries |-> [n \in {f.name : f \in files} |->
                                (CHOOSE f \in files : f.name = n).entry]]

\* an archive of the chart whose embedded subchart b holds, in its charts/,
\* a directory y without Chart.yaml
HollowArchive(dep) ==
  [name |-> archive_name(dep),
   entry |-> File(ChartDir(dep.name, dep.version, <<Dep(B, V1)>>,
                DirOf({[name |-> B,
                        entry |-> Dir(ChartDir(B, V1, <<>>,
                                   DirOf({[name |-> Y, entry |-> Dir(PlainDir(NoDir))]})))]})))]

RootCharts ==
  { NoDir,
    DirOf({Archive(Dep(A, V1))}),
    DirOf({Archive(Dep(A, V1)), Archive(Dep(Y, V2))}),
    DirOf({Archive(Dep(B, V1)), Archive(Dep(Y, V2))}),
    DirOf({BrokenArchive(Dep(B, V1)), HollowArchive(Dep(A, V10))}) }

\* the charts given with --package, by location
SrcA == ChartDir(A, V1, <<Dep(B, V1)>>, NoDir)
SrcAFetched == ChartDir(A, V1, <<Dep(B, V1)>>, DirOf({Archive(Dep(B, V1))}))
SrcACyclic == ChartDir(A, V1, <<Dep(A, V1)>>, NoDir)
SrcA2 == ChartDir(A, V2, <<>>, NoDir)
SrcA10 == ChartDir(A, V10, <<>>, NoDir)
SrcB == ChartDir(B, V1, <<>>, EmptyDir)
SrcC == ChartDir(C, V1, <<>>, EmptyDir)

One(l, t) == [s \in {l} |-> t]
Two(t1, t2) == [s \in {"s1", "s2"} |-> IF s = "s1" THEN t1 ELSE t2]

SourceSets ==
  { [s \in {} |-> s],
    One("s1", SrcA), One("s1", SrcAFetched), One("s1", SrcACyclic), One("s1", SrcA2),
    One("s1", SrcB), One("s1", SrcC),
    Two(SrcA, SrcB), Two(SrcA, SrcA10), Two(SrcB, SrcB), Two(SrcB, SrcC) }

\* ------------------------------------------------------------------- state
VARIABLES
  disk,    \* location -> directory tree: the root chart and the source charts
  srcs,    \* the locations of the source charts (--package)
  env,     \* [failAt]: the external call that fails in a command (0: none)
  last,    \* the last command: its inputs, its result, its exception, the
           \* scratch directories it made and those it left behind
  trace,   \* the events of the last command
  before,  \* the disk before the last command
  again,   \* the last command repeated the one before it, which had returned
  stack,   \* the calls of update_dependencies in progress, the innermost last:
           \* the chart, the arguments and the local variables of each
  run      \* the force argument and the interpreter state of the call in progress

vars == <<disk, srcs, env, last, trace, before, again, stack, run>>

NoCall == [op |-> "none", force |-> FALSE, remove |-> FALSE, touch |-> FALSE,
           updated |-> FALSE, err |-> "none", scratch |-> 0, made |-> 0]

Start == [disk |-> disk, trace |-> <<>>, err |-> "none", ncalls |-> 0,
          updated |-> FALSE, generated |-> {}, scratch |-> 0, made |-> 0,
          choices |-> <<>>, used |-> 0, asks |-> <<>>]

Init ==
  /\ \E deps \in RootDependencies, charts \in RootCharts, sources \in SourceSets :
       /\ srcs = DOMAIN sources
       /\ disk = [l \in {"root"} \cup DOMAIN sources |->
                    IF l = "root" THEN ChartDir(R, V1, deps, charts) ELSE sources[l]]
  /\ env \in [failAt : 0..MaxFail]
  /\ last = NoCall
  /\ trace = <<>>
  /\ before = disk
  /\ again = FALSE
  /\ stack = <<>>
  /\ run = [force |-> FALSE, st |-> [Start EXCEPT !.disk = <<>>]]

Cfg(force, remove, touch) ==
  [srcs |-> srcs, force |-> force, remove |-> remove, touch |-> touch,
   failAt |-> env.failAt]

Done(op, cfg, st) ==
  /\ disk' = st.disk
  /\ trace' = st.trace
  /\ before' = disk
  /\ last' = [op |-> op, force |-> cfg.force, remove |-> cfg.remove, touch |-> cfg.touch,
              updated |-> IF st.err = "none" THEN st.updated ELSE FALSE, err |-> st.err,
              scratch |-> st.scratch, made |-> st.made]
  /\ again' = (/\ last.op = op /\ last.force = cfg.force /\ last.remove = cfg.remove
               /\ last.touch = cfg.touch /\ last.err = "none")
  /\ UNCHANGED <<srcs, env>>

\* the command op run with the given choices of iteration orders
Command(op, cfg, choices) ==
  LET st == [Start EXCEPT !.choices = choices] IN
  CASE op = "resolve" -> update_dependencies(st, cfg, "root", 1)
    [] op = "clean" -> clean_dependencies(st, cfg, "root")
    [] op = "update" -> helm_dependency_update(st, cfg)

\* the choices that follow the given ones with order 0 at the next j - 1
\* iterations and order k at the j-th
other_order(choices, j, k) == choices \o [i \in 1..(j - 1) |-> 0] \o <<k>>

\* the ways the command op can end: one for each choice of an order at each
\* iteration over a set or a directory listing it comes to; st is the run
\* with the given choices, which took order 0 where it found no choice
RECURSIVE Outcomes(_, _, _)
choose_order(op, cfg, choices, st) ==
  {st} \cup UNION {UNION {Outcomes(op, cfg, other_order(choices, j, k)) :
                            k \in 1..(Factorial(st.asks[j]) - 1)} :
                     j \in 1..Len(st.asks)}

Outcomes(op, cfg, choices) == choose_order(op, cfg, choices, Command(op, cfg, choices))

\* chart.update_dependencies(subchart_sources, force=force) on the root chart
Resolve ==
  \E force \in BOOLEAN :
    LET cfg == Cfg(force, FALSE, FALSE) IN
    \E st \in Outcomes("resolve", cfg, <<>>) : Done("resolve", cfg, st)

\* chart.clean_dependencies() on the root chart
Clean ==
  LET cfg == Cfg(FALSE, FALSE, FALSE) IN
  \E st \in Outcomes("clean", cfg, <<>>) : Done("clean", cfg, st)

\* the command helm_dependency_update
Update ==
  \E force \in BOOLEAN, remove \in BOOLEAN, touch \in BOOLEAN :
    LET cfg == Cfg(force, remove, touch) IN
    \E st \in Outcomes("update", cfg, <<>>) : Done("update", cfg, st)

Next == (Resolve \/ Clean \/ Update) /\ UNCHANGED <<stack, run>>

Spec == Init /\ [][Next]_vars

\* ------------------------------------------ the resolver, call by call
\* One update_dependencies on the root chart, run one step at a time: a step
\* is the entry of a call, one iteration of the loop over self.dependencies,
\* or the part of a call after the loop.
Frame(loc, cfg) ==
  [loc |-> loc, cfg |-> cfg, i |-> 1,
   to_fetch_with_helm |-> <<>>, to_resolve |-> {}, updated |-> FALSE]

top == stack[Len(stack)]

head == iteration_head(run.st, top.cfg, top.loc, top.i)

InLoop == stack # <<>> /\ top.i <= Len(run.st.disk[top.loc].dependencies)

AfterLoop == stack # <<>> /\ top.i > Len(run.st.disk[top.loc].dependencies)

\* the ways the innermost call can go on after its loop: one for each choice
\* of an order at each iteration over a set or a directory listing
RECURSIVE finished(_)
finished_order(choices, st) ==
  {st} \cup UNION {UNION {finished(other_order(choices, j, k)) :
                            k \in 1..(Factorial(st.asks[j]) - 1)} :
                     j \in 1..Len(st.asks)}

finished(choices) ==
  finished_order(choices,
                 after_loop([run.st EXCEPT !.choices = choices], top.cfg, top.loc,
                            top.to_fetch_with_helm, top.to_resolve, top.updated))

\* the interpreter state between two steps: the choices taken are forgotten
between(st) == [st EXCEPT !.choices = <<>>, !.used = 0, !.asks = <<>>]

Running(frames, st) ==
  /\ stack' = frames
  /\ run' = [run EXCEPT !.st = between(st)]
  /\ UNCHANGED <<disk, srcs, env, last, trace, before, again>>

Ended(st) ==
  /\ Done("resolve", Cfg(run.force, FALSE, FALSE), st)
  /\ stack' = <<>>
  /\ run' = [run EXCEPT !.st = between(st)]

\* chart.update_dependencies(subchart_sources, force=force) is called on the
\* root chart
Call ==
  /\ last.op = "none" /\ stack = <<>>
  /\ \E force \in BOOLEAN :
       /\ stack' = <<Frame("root", Cfg(force, FALSE, FALSE))>>
       /\ run' = [force |-> force, st |-> entered(Start, "root")]
  /\ UNCHANGED <<disk, srcs, env, last, trace, before, again>>

\* an iteration for a dependency no source matches: it joins the batch of
\* the fetcher or the archives to re-check
Defer ==
  /\ InLoop /\ head.how \in {"fetch", "resolve"}
  /\ Running([stack EXCEPT
                ![Len(stack)].i = @ + 1,
                ![Len(stack)].to_fetch_with_helm =
                  IF head.how = "fetch" THEN batch_append(@, head.dependency) ELSE @,
                ![Len(stack)].to_resolve =
                  IF head.how = "resolve" THEN @ \cup {head.dependency_name} ELSE @],
             head.seen)

\* find_one_source raises for a dependency several sources match
Ambiguous ==
  /\ InLoop /\ head.how = "many"
  /\ Ended(Fail(head.seen, "NotImplementedError"))

\* an iteration for a dependency one source matches: the recursive call
Descend ==
  /\ InLoop /\ head.how = "source"
  /\ Len(stack) + 1 <= RecursionLimit
  /\ Running(Append(stack, Frame(callee(head.src.src, top.loc), recursive_call(top.cfg))),
             entered(head.seen, callee(head.src.src, top.loc)))

\* the recursive call that exceeds the recursion limit of the interpreter
Overflow ==
  /\ InLoop /\ head.how = "source"
  /\ Len(stack) + 1 > RecursionLimit
  /\ Ended(Fail(head.seen, "RecursionError"))

\* the fetch or the re-check after the loop raises
Abort ==
  /\ AfterLoop
  /\ \E fin \in finished(<<>>) : fin.err # "none" /\ Ended(fin)

\* the call on the root chart returns
Return ==
  /\ AfterLoop /\ Len(stack) = 1
  /\ \E fin \in finished(<<>>) : fin.err = "none" /\ Ended(fin)

\* the call on a source returns and the caller packages the source, which
\* ends the caller's iteration
Ascend ==
  /\ AfterLoop /\ Len(stack) > 1
  /\ \E fin \in finished(<<>>) :
       /\ fin.err = "none"
       /\ LET caller == stack[Len(stack) - 1]
              src == iteration_head(fin, caller.cfg, caller.loc, caller.i).src.src
              packaged == package(fin, caller.cfg, fin.disk[src], src, caller.loc)
          IN
          IF packaged.err # "none" THEN Ended(packaged)
          ELSE Running([SubSeq(stack, 1, Len(stack) - 1) EXCEPT
                          ![Len(stack) - 1].i = @ + 1,
                          ![Len(stack) - 1].updated = TRUE],
                       packaged)

\* the steps up to the end of the loop, and those after it
Loop == Call \/ Defer \/ Ambiguous \/ Descend \/ Overflow

Leave == Abort \/ Return \/ Ascend

Step == Loop \/ Leave

\* weak fairness of Leave: a step of Leave is possible exactly in the states
\* of AfterLoop, and it changes the stack or ends the command
FairLeave == []<>(~AfterLoop) \/ []<><<Leave>>_vars

\* the interpreter goes on as long as there is a step to take
SpecSteps == Init /\ [][Step]_vars /\ WF_vars(Loop) /\ FairLeave

\* ------------------------------------------------------------- properties
\* the last command ran update_dependencies on the root chart
Resolved == last.op \in {"resolve", "update"}

Returned == last.err = "none"

rootDeps == disk["root"].dependencies

\* the sources a dependency name starts with the name-version string of
NameVersionMatches(fq) ==
  {s \in srcs : startswith(fq, disk[s].name \o DASH \o disk[s].version)}

\* the sources a dependency name starts with the unversioned name of
UnversionedMatches(fq) == {s \in srcs : startswith(fq, disk[s].name)}

Events(op, loc) == {i \in 1..Len(trace) : trace[i].op = op /\ trace[i].loc = loc}

\* the loop of update_dependencies over the dependencies of loc ran to its end
LoopFinished(loc) ==
  Events("fetch", loc) \cup Events("recheck", loc) \cup Events("return", loc) # {}

\* C1 (as stated): a resolve that repeats a resolve with the same inputs,
\* nothing else having touched the disk in between, returns updated = false.
C1_Original ==
  (last.op = "resolve" /\ again /\ Returned) => ~last.updated

\* C1 (amended): the repeated resolve returns updated = false exactly when
\* the chart declares no dependency; with at least one declared dependency
\* it returns updated = true again.
C1_Amended ==
  (last.op = "resolve" /\ again /\ Returned) => (last.updated <=> rootDeps # <<>>)

\* a repeated resolve that changed nothing on disk and still returned true
C1_Witness ==
  last.op = "resolve" /\ again /\ Returned /\ last.updated /\ disk = before

\* C2: a dependency matched by exactly one source is never put in the batch
\* of the Remote Fetcher, its archive is never put in the re-check set, and it
\* is fulfilled by packaging the source, with and without force.
C2_SourcePrecedence ==
  Resolved =>
    \A i \in 1..Len(rootDeps) :
      LET fq == compute_name(rootDeps[i])
          m == NameVersionMatches(fq) IN
      Cardinality(m) = 1 =>
        /\ \A e \in Events("fetch", "root") : fq \notin Range(trace[e].arg)
        /\ \A e \in Events("recheck", "root") : fq \o TGZ \notin Range(trace[e].arg)
        /\ \A e \in Events("extract", "root") : trace[e].arg # <<fq \o TGZ>>
        /\ Returned =>
             \E e \in Events("package", "root") : trace[e].from \in m

\* a forced resolve returned, a matched dependency had its archive on disk
\* before, and another dependency went to the Remote Fetcher
C2_Witness ==
  /\ Resolved /\ Returned /\ last.force
  /\ Events("fetch", "root") # {}
  /\ \E i \in 1..Len(rootDeps) :
       /\ Cardinality(NameVersionMatches(compute_name(rootDeps[i]))) = 1
       /\ exists(before["root"].charts, archive_name(rootDeps[i]))

\* the dependency events of the last command: the name looked up and the
\* outcome of find_one_source (a source, "none" or "many")
Lookups == {i \in 1..Len(trace) : trace[i].op = "dependency"}

\* C3 (as stated): a source matches a dependency exactly when the
\* dependency's name-version starts with the unversioned name of the source.
C3_Original ==
  \A i \in Lookups : \A s \in srcs :
    UnversionedMatches(trace[i].arg[1]) = {s} => trace[i].from = s

\* C3 (amended): a source matches a dependency exactly when the dependency's
\* name-version starts with the name-version string of the source; a source
\* a-1 matches the dependencies a-1 and a-10, a source a-2 matches neither.
C3_Amended ==
  \A i \in Lookups :
    LET m == NameVersionMatches(trace[i].arg[1]) IN
    /\ \A s \in srcs : trace[i].from = s <=> m = {s}
    /\ trace[i].from = "none" <=> m = {}
    /\ trace[i].from = "many" <=> Cardinality(m) > 1

\* a lookup found no source for a dependency although the unversioned name
\* of a supplied source is a prefix of its name (source a-2, dependency a-1)
C3_Witness ==
  \E i \in Lookups : \E s \in srcs :
    /\ trace[i].from = "none"
    /\ startswith(trace[i].arg[1], disk[s].name)
    /\ ~startswith(trace[i].arg[1], disk[s].name \o DASH \o disk[s].version)

\* the declared dependencies of the root chart that two or more sources match
AmbiguousDeps ==
  {i \in 1..Len(rootDeps) : Cardinality(NameVersionMatches(compute_name(rootDeps[i]))) > 1}

\* the entry called f of the charts directory of the root chart is what it
\* was before the command
Untouched(f) ==
  /\ exists(disk["root"].charts, f) <=> exists(before["root"].charts, f)
  /\ exists(disk["root"].charts, f) =>
       disk["root"].charts.entries[f] = before["root"].charts.entries[f]

\* C4: when two or more sources match a declared dependency d, resolve does
\* not return; once the resolver has looked d up the failure is
\* NotImplementedError (AmbiguousSource); the call writes no archive for d.
C4_AmbiguityDetection ==
  (Resolved /\ AmbiguousDeps # {}) =>
    /\ ~Returned
    /\ Events("fetch", "root") = {}
    /\ \A i \in AmbiguousDeps :
         LET fq == compute_name(rootDeps[i]) IN
         /\ (\E e \in Lookups : trace[e] = Ev("dependency", "root", "many", <<fq>>))
              => last.err = "NotImplementedError"
         /\ Untouched(fq \o TGZ)
         /\ \A e \in Events("package", "root") : trace[e].arg # <<fq \o TGZ>>

\* resolve failed on an ambiguous dependency after it had packaged a source
\* for an earlier dependency
C4_Witness ==
  /\ Resolved /\ AmbiguousDeps # {}
  /\ last.err = "NotImplementedError"
  /\ Events("package", "root") # {}

\* the Remote Fetcher failed for the batch of the root chart
FetchFailed ==
  /\ ~Returned /\ Len(trace) > 0
  /\ trace[Len(trace)].op = "fetch" /\ trace[Len(trace)].loc = "root"

\* C5: with force every declared dependency without a matching source is in
\* the batch of the Remote Fetcher, also when its archive is already there;
\* without force such an archive is not fetched but re-checked.
C5_ForceBypass ==
  (Resolved /\ LoopFinished("root")) =>
    \A i \in 1..Len(rootDeps) :
      LET fq == compute_name(rootDeps[i])
          present == exists(before["root"].charts, fq \o TGZ) IN
      NameVersionMatches(fq) = {} =>
        /\ last.force =>
             \E e \in Events("fetch", "root") : fq \in Range(trace[e].arg)
        /\ (~last.force /\ present) =>
             /\ \A e \in Events("fetch", "root") : fq \notin Range(trace[e].arg)
             /\ ~FetchFailed =>
                  \E e \in Events("recheck", "root") : fq \o TGZ \in Range(trace[e].arg)

\* a forced resolve fetched a dependency whose archive was already there
C5_Witness ==
  /\ Resolved /\ last.force
  /\ \E i \in 1..Len(rootDeps) :
       /\ NameVersionMatches(compute_name(rootDeps[i])) = {}
       /\ exists(before["root"].charts, archive_name(rootDeps[i]))
       /\ \E e \in Events("fetch", "root") : compute_name(rootDeps[i]) \in Range(trace[e].arg)

\* the directory-form subcharts below a chart directory, each named by its
\* path of directory names
RECURSIVE DirPaths(_)
DirPaths(tree) ==
  IF ~tree.charts.exists THEN {}
  ELSE UNION { {<<n>>} \cup {<<n>> \o q : q \in DirPaths(tree.charts.entries[n].tree)} :
               n \in {m \in DOMAIN tree.charts.entries : tree.charts.entries[m].kind = "dir"} }

RECURSIVE HasPath(_, _)
HasPath(tree, p) ==
  \/ p = <<>>
  \/ /\ exists(tree.charts, Head(p))
     /\ tree.charts.entries[Head(p)].kind = "dir"
     /\ HasPath(tree.charts.entries[Head(p)].tree, Tail(p))

RECURSIVE NodeAt(_, _)
NodeAt(tree, p) ==
  IF p = <<>> THEN tree ELSE NodeAt(tree.charts.entries[Head(p)].tree, Tail(p))

\* the source that alone matches the chart in the directory p of tree
SourceFor(tree, p) ==
  IF NodeAt(tree, p).manifest THEN NameVersionMatches(chart_name(NodeAt(tree, p))) ELSE {}

\* the declared dependencies of the root chart that no source matches and
\* whose archive was on disk before the command
Archived ==
  {i \in 1..Len(rootDeps) :
     /\ NameVersionMatches(compute_name(rootDeps[i])) = {}
     /\ exists(before["root"].charts, archive_name(rootDeps[i]))
     /\ before["root"].charts.entries[archive_name(rootDeps[i])].tree.manifest}

\* the archive of dependency i holds, at the path p, the content of source s
\* and was repackaged by the command
Substituted(i, p, s) ==
  LET f == archive_name(rootDeps[i]) IN
  /\ exists(disk["root"].charts, f)
  /\ HasPath(disk["root"].charts.entries[f].tree, p)
  /\ NodeAt(disk["root"].charts.entries[f].tree, p) = disk[s]
  /\ \E e \in Events("package", "root") : trace[e].from = "scratch" /\ trace[e].arg = <<f>>
  /\ \E e \in Events("rm", "root") : trace[e].arg = <<f>>

\* no directory above p, in the archive of dependency i, is matched by a source
NoneAbove(i, p) ==
  \A k \in 1..(Len(p) - 1) :
    SourceFor(before["root"].charts.entries[archive_name(rootDeps[i])].tree, SubSeq(p, 1, k)) = {}

\* C6 (as stated): for an archived dependency A and a subchart B nested at
\* any depth below A that a source matches, one resolve without force leaves
\* the archive of A repackaged with the content of the source in place of B.
C6_Original ==
  (Resolved /\ Returned /\ ~last.force) =>
    \A i \in Archived :
      LET old == before["root"].charts.entries[archive_name(rootDeps[i])].tree IN
      \A p \in DirPaths(old) : \A s \in srcs :
        SourceFor(old, p) = {s} => Substituted(i, p, s)

\* C6 (amended): the same, for a subchart B none of whose enclosing
\* directories below A is itself matched by a source (a matched directory is
\* replaced as a whole and its former subcharts are not visited).
C6_Amended ==
  (Resolved /\ Returned /\ ~last.force) =>
    \A i \in Archived :
      LET old == before["root"].charts.entries[archive_name(rootDeps[i])].tree IN
      \A p \in DirPaths(old) : \A s \in srcs :
        (SourceFor(old, p) = {s} /\ NoneAbove(i, p)) => Substituted(i, p, s)

\* a subchart two levels below the archived dependency was replaced by the
\* source and the archive repackaged
C6_Witness ==
  /\ Resolved /\ Returned /\ ~last.force
  /\ \E i \in Archived :
       LET old == before["root"].charts.entries[archive_name(rootDeps[i])].tree IN
       \E p \in DirPaths(old) : \E s \in srcs :
         /\ Len(p) = 2 /\ SourceFor(old, p) = {s} /\ NoneAbove(i, p)
         /\ Substituted(i, p, s)
         /\ NodeAt(old, p) # disk[s]

\* C7: clean deletes an archive of the charts directory exactly when its
\* name without ".tgz" is a prefix of no declared dependency's name-version,
\* and keeps every other entry as it was.
C7_CleanupRule ==
  (last.op = "clean" /\ Returned) =>
    LET old == before["root"].charts
        new == disk["root"].charts IN
    /\ DOMAIN new.entries \subseteq DOMAIN old.entries
    /\ \A f \in DOMAIN old.entries :
         LET isArchive == Len(f) >= 4 /\ SubSeq(f, Len(f) - 3, Len(f)) = <<".", "t", "g", "z">>
             stem == SubSeq(f, 1, Len(f) - 4)
             claimed == \E i \in 1..Len(rootDeps) :
                          LET d == rootDeps[i].name \o <<"-">> \o rootDeps[i].version IN
                          Len(stem) <= Len(d) /\ SubSeq(d, 1, Len(stem)) = stem
         IN IF isArchive /\ ~claimed
            THEN f \notin DOMAIN new.entries
            ELSE f \in DOMAIN new.entries /\ new.entries[f] = old.entries[f]

\* with the archives a-1.tgz and y-2.tgz and the dependency a-1, clean has
\* removed y-2.tgz and kept a-1.tgz
C7_Witness ==
  /\ last.op = "clean" /\ Returned
  /\ rootDeps = <<Dep(A, V1)>>
  /\ DOMAIN before["root"].charts.entries = {A \o DASH \o V1 \o TGZ, Y \o DASH \o V2 \o TGZ}
  /\ DOMAIN disk["root"].charts.entries = {A \o DASH \o V1 \o TGZ}

\* C8: a clean that repeats a clean deletes nothing: the directory is what
\* the first clean left.
C8_CleanerFixpoint ==
  (last.op = "clean" /\ again /\ Returned) => disk = before

\* a clean was repeated on a directory that still holds an archive
C8_Witness ==
  /\ last.op = "clean" /\ again /\ Returned
  /\ DOMAIN disk["root"].charts.entries # {}

\* C9: after a resolve that returned, every declared dependency is in the
\* charts directory: as the packaged source when one source matches it, else
\* as the archive name-version.tgz.
C9_Postcondition ==
  (last.op = "resolve" /\ Returned) =>
    \A i \in 1..Len(rootDeps) :
      LET fq == compute_name(rootDeps[i])
          m == NameVersionMatches(fq)
          charts == disk["root"].charts IN
      /\ Cardinality(m) <= 1
      /\ \A s \in m :
           /\ exists(charts, chart_name(disk[s]) \o TGZ)
           /\ charts.entries[chart_name(disk[s]) \o TGZ] = File(disk[s])
      /\ m = {} =>
           /\ exists(charts, fq \o TGZ)
           /\ charts.entries[fq \o TGZ].kind = "file"

\* a resolve returned after packaging a source for one dependency and
\* fetching another one
C9_Witness ==
  /\ last.op = "resolve" /\ Returned
  /\ Events("fetch", "root") # {}
  /\ Events("package", "root") # {}
  /\ \E i \in 1..Len(rootDeps) : NameVersionMatches(compute_name(rootDeps[i])) # {}

\* the batch update_dependencies is to hand to the Remote Fetcher: the
\* dependencies without matching source that are forced or have no archive
ExpectedBatch ==
  SelectSeq([i \in 1..Len(rootDeps) |-> compute_name(rootDeps[i])],
            LAMBDA fq : /\ NameVersionMatches(fq) = {}
                        /\ (last.force \/ ~exists(before["root"].charts, fq \o TGZ)))

\* C10: within one resolve of a chart the Remote Fetcher is invoked at most
\* once, after the loop over all declared dependencies, only for a
\* non-empty batch, and the batch is the expected one in declaration order.
C10_BatchedFetch ==
  Resolved =>
    /\ Cardinality(Events("fetch", "root")) <= 1
    /\ \A e \in Events("fetch", "root") :
         /\ trace[e].arg # <<>>
         /\ trace[e].arg = ExpectedBatch
         /\ Cardinality(Events("dependency", "root")) = Len(rootDeps)
         /\ \A l \in Events("dependency", "root") : l < e
    /\ (LoopFinished("root") /\ ExpectedBatch # <<>>) => Events("fetch", "root") # {}

\* one invocation of the Remote Fetcher for a batch of two dependencies
C10_Witness ==
  /\ Resolved
  /\ \E e \in Events("fetch", "root") : Len(trace[e].arg) = 2

\* C11: no scratch directory made by a command (the manifest directory of
\* the fetcher, the extraction directory of the re-check) exists when the
\* command ends, whether it returned or failed.
C11_ScratchCleanup ==
  last.scratch = 0

\* a command failed after it had made a scratch directory
C11_Witness ==
  Resolved /\ ~Returned /\ last.made > 0 /\ last.scratch = 0

\* C12 (as stated): resolve never loses an archive of the charts directory:
\* at a path that held an archive before the call there is, after the call,
\* returned or failed, the old archive or a new one.
C12_ArchiveAtomicity ==
  last.op = "resolve" =>
    \A f \in DOMAIN before["root"].charts.entries :
      /\ exists(disk["root"].charts, f)
      /\ disk["root"].charts.entries[f].kind = "file"

\* the package events of the last command that wrote their archive: a
\* failing helm package is the last event of a failed command
Packaged(loc) ==
  {e \in Events("package", loc) : Returned \/ e < Len(trace)}

\* C13: when resolve fails, the archives it has already packaged from
\* sources into the charts directory are still there: nothing is rolled back.
C13_NonTransactional ==
  (Resolved /\ ~Returned) =>
    \A e \in Packaged("root") :
      trace[e].from \in srcs =>
        /\ exists(disk["root"].charts, trace[e].arg[1])
        /\ disk["root"].charts.entries[trace[e].arg[1]].kind = "file"
        /\ chart_name(disk["root"].charts.entries[trace[e].arg[1]].tree) \o TGZ = trace[e].arg[1]

\* resolve failed on a later dependency and the archive it had packaged for
\* an earlier one, which was not there before, is on disk
C13_Witness ==
  /\ Resolved /\ ~Returned
  /\ \E e \in Packaged("root") :
       /\ trace[e].from \in srcs
       /\ trace[e + 1].op = "dependency" /\ trace[e + 1].loc = "root"
       /\ ~exists(before["root"].charts, trace[e].arg[1])
       /\ exists(disk["root"].charts, trace[e].arg[1])

\* the events of the external calls, in the order of the calls
ExternalEvents == {i \in 1..Len(trace) : trace[i].op \in {"fetch", "package", "extract"}}

\* the event e is the external call that failed
FailedCall(e) ==
  /\ e \in ExternalEvents
  /\ Cardinality({x \in ExternalEvents : x <= e}) = env.failAt

\* the event e is the invocation of the Remote Fetcher that failed
FailedFetch(e) == FailedCall(e) /\ trace[e].op = "fetch"

\* C14: when the invocation of the Remote Fetcher fails, resolve fails with
\* the failure of that call and does nothing more: no retry, no extraction,
\* substitution or repackaging, and the archives named in the batch are
\* as they were.
C14_FetchFailureFatal ==
  Resolved =>
    \A e \in 1..Len(trace) :
      FailedFetch(e) =>
        /\ ~Returned /\ last.err = "CalledProcessError"
        /\ e = Len(trace)
        /\ Cardinality(Events("fetch", trace[e].loc)) = 1
        /\ Events("extract", trace[e].loc) = {}
        /\ Events("rm", trace[e].loc) = {}
        /\ trace[e].loc = "root" =>
             \A k \in 1..Len(trace[e].arg) : Untouched(trace[e].arg[k] \o TGZ)

\* the fetch of a batch that names an archive already on disk failed
C14_Witness ==
  /\ Resolved
  /\ \E e \in 1..Len(trace) :
       /\ FailedFetch(e) /\ trace[e].loc = "root"
       /\ \E k \in 1..Len(trace[e].arg) :
            exists(before["root"].charts, trace[e].arg[k] \o TGZ)

\* C15: in one helm_dependency_update the Cleaner runs at most once, only
\* with remove and only after the update of the root chart has returned,
\* whatever it reported; the touch happens only when the update reported a
\* change, and after the cleaning.
C15_CommandOrdering ==
  last.op = "update" =>
    LET returns == Events("return", "root")
        cleans == Events("iterdir", "root")
        touches == Events("touch", "root") IN
    /\ Cardinality(cleans) <= 1
    /\ cleans # {} <=> (last.remove /\ returns # {})
    /\ \A c \in cleans : \A i \in 1..Len(trace) :
         (trace[i].op \notin {"iterdir", "clean", "touch"}) => i < c
    /\ Cardinality(touches) <= 1
    /\ touches # {} <=> (last.touch /\ Returned /\ last.updated)
    /\ \A t \in touches : t = Len(trace)

\* a command with remove and touch cleaned an archive away after an update
\* that reported a change, and touched the file last
C15_Witness ==
  /\ last.op = "update" /\ last.remove /\ last.touch /\ last.updated
  /\ Events("clean", "root") # {}
  /\ Events("touch", "root") = {Len(trace)}

\* the extraction whose chart the event i belongs to
ExtractBefore(i) ==
  CHOOSE x \in 1..i :
    trace[x].op = "extract" /\ \A y \in (x + 1)..i : trace[y].op # "extract"

\* C16: a directory without Chart.yaml gives no Chart: when the chart
\* extracted from an archive, or a directory the substituter meets in it at
\* any depth, has no Chart.yaml, resolve fails with UsageError
\* (MissingManifest) at that point and nothing is done after it.
C16_MissingManifest ==
  Resolved =>
    \A i \in 1..Len(trace) :
      /\ (trace[i].op = "extract" /\ ~FailedCall(i)) =>
           LET l == trace[i].loc
               f == trace[i].arg[1] IN
           (exists(disk[l].charts, f) /\ ~disk[l].charts.entries[f].tree.manifest) =>
             (~Returned /\ last.err = "UsageError" /\ i = Len(trace))
      /\ trace[i].op = "load" =>
           LET l == trace[ExtractBefore(i)].loc
               f == trace[ExtractBefore(i)].arg[1]
               p == trace[i].arg IN
           ( /\ exists(disk[l].charts, f)
             /\ HasPath(disk[l].charts.entries[f].tree, p)
             /\ ~NodeAt(disk[l].charts.entries[f].tree, p).manifest ) =>
             (~Returned /\ last.err = "UsageError" /\ i = Len(trace))

\* the substituter met, two levels below an extracted chart, a directory
\* without Chart.yaml
C16_Witness ==
  /\ Resolved /\ last.err = "UsageError"
  /\ trace[Len(trace)].op = "load" /\ Len(trace[Len(trace)].arg) = 2
  /\ LET x == ExtractBefore(Len(trace)) IN
     ~NodeAt(disk[trace[x].loc].charts.entries[trace[x].arg[1]].tree,
             trace[Len(trace)].arg).manifest

\* C17: for a dependency matched by the source s the resolver first calls
\* resolve on s, with the same sources, and packages s only after that call
\* has returned; a call on s that fails is followed by no package of s.
C17_SourceFirst ==
  Resolved =>
    \A i \in 1..Len(trace) :
      /\ (trace[i].op = "dependency" /\ trace[i].from \in srcs /\ i < Len(trace)) =>
           (trace[i + 1].op = "call" /\ trace[i + 1].loc = trace[i].from)
      /\ (trace[i].op = "dependency" /\ trace[i].loc \in srcs) =>
           \A s \in srcs : trace[i].from = s <=> NameVersionMatches(trace[i].arg[1]) = {s}
      /\ (trace[i].op = "package" /\ trace[i].from \in srcs) =>
           (trace[i - 1].op = "return" /\ trace[i - 1].loc = trace[i].from)
      /\ (trace[i].op = "return" /\ trace[i].loc \in srcs) =>
           /\ i < Len(trace)
           /\ trace[i + 1].op = "package" /\ trace[i + 1].from = trace[i].loc

\* a source that declares dependencies of its own was resolved, returned
\* and was then packaged into the charts directory of the root chart
C17_Witness ==
  /\ Resolved /\ Returned
  /\ \E e \in Events("package", "root") :
       /\ trace[e].from \in srcs
       /\ Events("dependency", trace[e].from) # {}
       /\ trace[e - 1].op = "return"

\* the archives the Remote Fetcher brought into the charts directory of the
\* root chart
Fetched ==
  {trace[e].arg[k] \o TGZ : <<e, k>> \in
     {x \in Events("fetch", "root") \X (1..Len(rootDeps)) :
        x[2] <= Len(trace[x[1]].arg) /\ ~FailedCall(x[1])}}

\* the archives of the unmatched declared dependencies that were in the
\* charts directory of the root chart before an unforced command
Present ==
  {archive_name(rootDeps[i]) : i \in
     {j \in 1..Len(rootDeps) :
        /\ NameVersionMatches(compute_name(rootDeps[j])) = {}
        /\ ~last.force
        /\ exists(before["root"].charts, archive_name(rootDeps[j]))}}

\* the substituter replaced a directory of the chart extracted at event x
Changed(x) ==
  \E i \in x..Len(trace) : trace[i].op = "substitute" /\ ExtractBefore(i) = x

\* C18: the re-check extracts the fetched archives and the archives already
\* present of the unmatched dependencies of an unforced call, each once; it
\* deletes and repackages an archive only when the substituter reported a
\* change, the delete first; an archive without a change is left as it was.
C18_Recheck ==
  Resolved =>
    LET extracts == Events("extract", "root") IN
    /\ {trace[x].arg[1] : x \in extracts} \subseteq Fetched \cup Present
    /\ Events("return", "root") # {} =>
         {trace[x].arg[1] : x \in extracts} = Fetched \cup Present
    /\ \A x, y \in extracts : trace[x].arg = trace[y].arg => x = y
    /\ \A m \in Events("rm", "root") :
         /\ trace[ExtractBefore(m)].arg = trace[m].arg
         /\ Changed(ExtractBefore(m))
         /\ m < Len(trace) /\ trace[m + 1].op = "package"
    /\ \A e \in Events("package", "root") :
         trace[e].from = "scratch" =>
           /\ trace[e - 1].op = "rm" /\ trace[e - 1].arg = trace[e].arg
           /\ trace[ExtractBefore(e)].arg = trace[e].arg
    /\ \A x \in extracts :
         (~Changed(x) /\ trace[x].arg[1] \in Present \ Fetched) => Untouched(trace[x].arg[1])
    /\ \A x \in extracts :
         (Changed(x) /\ Events("return", "root") # {}) =>
           \E m \in Events("rm", "root") : trace[m].arg = trace[x].arg

\* one re-check opened an archive that was already there and a fetched one,
\* repackaged the first, whose subchart a source matches, and left the
\* second as it was
C18_Witness ==
  /\ Resolved /\ Returned
  /\ \E x, y \in Events("extract", "root") :
       /\ trace[x].arg[1] \in Present /\ trace[y].arg[1] \in Fetched
       /\ Changed(x) /\ ~Changed(y)
       /\ \E m \in Events("rm", "root") : trace[m].arg = trace[x].arg
       /\ \A m \in Events("rm", "root") : trace[m].arg # trace[y].arg
       /\ exists(disk["root"].charts, trace[y].arg[1])
       /\ ~Untouched(trace[x].arg[1])

\* the chart the re-check of the root chart extracted from the archive f
Extracted(f) ==
  IF f \in Fetched
  THEN RemoteChart(rootDeps[CHOOSE i \in 1..Len(rootDeps) : archive_name(rootDeps[i]) = f])
  ELSE before["root"].charts.entries[f].tree

\* the directories of tree that have no matched directory above them
Visited(tree) ==
  {p \in DirPaths(tree) :
     \A k \in 1..(Len(p) - 1) : SourceFor(tree, SubSeq(p, 1, k)) = {}}

\* tree with every visited directory that one source matches replaced by
\* the directory of that source
RECURSIVE Replaced(_)
Replaced(tree) ==
  IF ~tree.charts.exists THEN tree
  ELSE
    LET old == tree.charts.entries
        new(n) == IF old[n].kind # "dir" THEN old[n]
                  ELSE IF SourceFor(tree, <<n>>) # {}
                  THEN Dir(disk[CHOOSE s \in srcs : SourceFor(tree, <<n>>) = {s}])
                  ELSE Dir(Replaced(old[n].tree))
    IN [tree EXCEPT !.charts.entries = [n \in DOMAIN old |-> new(n)]]

\* C19: in a chart extracted by a re-check that ran to its end the
\* substituter loads exactly the directory-form subcharts with no matched
\* directory above them, replaces exactly those of them that one source
\* matches by the directory of that source, reports a change (the archive is
\* deleted and repackaged with the result) exactly when it replaced at least
\* one, and otherwise leaves the archive as it was.
C19_Substituter ==
  (Resolved /\ Events("return", "root") # {}) =>
    \A x \in Events("extract", "root") :
      LET f == trace[x].arg[1]
          tree == Extracted(f)
          mine(op) == {i \in x..Len(trace) : trace[i].op = op /\ ExtractBefore(i) = x}
          matched == {p \in Visited(tree) : SourceFor(tree, p) # {}} IN
      /\ {trace[i].arg : i \in mine("load")} = Visited(tree)
      /\ {<<trace[i].arg, trace[i].from>> : i \in mine("substitute")} =
           {<<p, s>> \in matched \X srcs : SourceFor(tree, p) = {s}}
      /\ matched # {} <=> mine("rm") # {}
      /\ exists(disk["root"].charts, f)
      /\ disk["root"].charts.entries[f] = File(Replaced(tree))
      /\ matched = {} => disk["root"].charts.entries[f] = File(tree)

\* the substituter went down an unmatched subchart of an extracted chart,
\* replaced the directory below it and the archive was repackaged
C19_Witness ==
  /\ Resolved /\ Events("return", "root") # {}
  /\ \E x \in Events("extract", "root") :
       LET tree == Extracted(trace[x].arg[1]) IN
       /\ \E p \in Visited(tree) : Len(p) = 2 /\ SourceFor(tree, p) # {}
       /\ disk["root"].charts.entries[trace[x].arg[1]].tree # tree
       /\ \E m \in Events("rm", "root") : trace[m].arg = trace[x].arg

\* the names of the batches the Remote Fetcher was invoked with for the
\* chart at loc
Batched(loc) ==
  {trace[x[1]].arg[x[2]] : x \in
     {y \in Events("fetch", loc) \X (1..Len(disk[loc].dependencies)) :
        y[2] <= Len(trace[y[1]].arg)}}

\* C20: the recursive resolve of a matched source runs with the force of the
\* caller: once its loop over the dependencies has ended, with force every
\* unmatched dependency of the source is fetched, also when its archive is
\* in the charts directory of the source, and without force such an archive
\* is not fetched.
C20_ForcePropagation ==
  Resolved =>
    \A s \in srcs :
      (Events("call", s) # {} /\ LoopFinished(s)) =>
        \A j \in 1..Len(disk[s].dependencies) :
          LET d == disk[s].dependencies[j] IN
          NameVersionMatches(compute_name(d)) = {} =>
            /\ last.force => compute_name(d) \in Batched(s)
            /\ (~last.force /\ exists(before[s].charts, archive_name(d))) =>
                 compute_name(d) \notin Batched(s)

\* a forced resolve of the root chart fetched again a dependency of a matched
\* source whose archive was in the charts directory of the source
C20_Witness ==
  /\ Resolved /\ last.force
  /\ \E s \in srcs : \E j \in 1..Len(disk[s].dependencies) :
       /\ Events("call", s) # {}
       /\ exists(before[s].charts, archive_name(disk[s].dependencies[j]))
       /\ compute_name(disk[s].dependencies[j]) \in Batched(s)

\* the chart at s declares a dependency that the source t alone matches
Matches(s, t) ==
  \E j \in 1..Len(disk[s].dependencies) :
    NameVersionMatches(compute_name(disk[s].dependencies[j])) = {t}

\* s reaches t through at most n steps of Matches
RECURSIVE Reaches(_, _, _)
Reaches(s, t, n) ==
  n > 0 /\ (Matches(s, t) \/ \E u \in srcs : Matches(s, u) /\ Reaches(u, t, n - 1))

\* no source reaches itself
Acyclic == \A s \in srcs : ~Reaches(s, s, Cardinality(srcs))

\* every call in progress but the first is on the source that alone matches
\* the dependency its caller is at
OnMatchedSources ==
  \A k \in 2..Len(stack) :
    /\ stack[k].loc \in srcs
    /\ NameVersionMatches(
         compute_name(disk[stack[k - 1].loc].dependencies[stack[k - 1].i])) = {stack[k].loc}

\* the calls in progress are on different charts
NoChartTwice ==
  \A k, m \in 1..Len(stack) : stack[k].loc = stack[m].loc => k = m

\* within one extracted chart the substituter loads a directory once, and a
\* directory below the subcharts of the chart only after, and one level
\* below, a directory it has loaded
DeeperEachTime ==
  LET t == run.st.trace
      same(i, j) == \A y \in (j + 1)..i : t[y].op # "extract" IN
  \A i \in 1..Len(t) :
    t[i].op = "load" =>
      /\ \A j \in 1..(i - 1) : (t[j].op = "load" /\ same(i, j)) => t[j].arg # t[i].arg
      /\ Len(t[i].arg) > 1 =>
           \E j \in 1..(i - 1) :
             /\ t[j].op = "load" /\ same(i, j)
             /\ t[j].arg = SubSeq(t[i].arg, 1, Len(t[i].arg) - 1)

\* C21: when no source reaches itself through 'declares a dependency that
\* the source matches', a resolve in progress ends, returned or failed,
\* and not by running out of stack; every recursive call of the resolver
\* is on a matched source, no chart is in progress twice, and every
\* recursive call of the substituter is on a directory one level deeper in
\* the extracted chart.
C21_Termination ==
  /\ [](OnMatchedSources /\ DeeperEachTime /\ (Acyclic => NoChartTwice))
  /\ (stack # <<>> /\ Acyclic) ~>
       (stack = <<>> /\ last.op = "resolve" /\ last.err # "RecursionError")

\* a resolve over sources that do not reach themselves has returned after a
\* call on a source made from inside the call on another source
C21_Witness ==
  /\ Acyclic /\ stack = <<>> /\ last.op = "resolve" /\ Returned
  /\ \E s, t \in srcs :
       /\ s # t
       /\ \E i \in Events("dependency", s) : trace[i].from = t
       /\ Events("call", t) # {}

\* C22: the Cleaner keeps the archives the Resolver packages from matched
\* sources, named after the source: in a command that resolves and then
\* cleans, every archive packaged from a source is in the charts directory
\* at the end, with the content of the source, and was not cleaned; a clean
\* on its own keeps the archive named after a source that matches a
\* declared dependency.
C22_ResolveThenClean ==
  /\ (last.op = "update" /\ Events("iterdir", "root") # {}) =>
       \A e \in Packaged("root") :
         trace[e].from \in srcs =>
           /\ exists(disk["root"].charts, trace[e].arg[1])
           /\ disk["root"].charts.entries[trace[e].arg[1]] = File(disk[trace[e].from])
           /\ \A c \in Events("clean", "root") : trace[c].arg # trace[e].arg
  /\ (last.op = "clean" /\ Returned) =>
       \A i \in 1..Len(rootDeps) : \A s \in srcs :
         NameVersionMatches(compute_name(rootDeps[i])) = {s} =>
           Untouched(chart_name(disk[s]) \o TGZ)

\* a command with remove packaged a source under a name that is the archive
\* name of no declared dependency, and the archive is there after the clean
C22_Witness ==
  /\ last.op = "update" /\ Returned /\ Events("iterdir", "root") # {}
  /\ \E e \in Packaged("root") :
       /\ trace[e].from \in srcs
       /\ \A i \in 1..Len(rootDeps) : archive_name(rootDeps[i]) # trace[e].arg[1]
       /\ exists(disk["root"].charts, trace[e].arg[1])

\* the root chart declares no dependency and had no charts directory
\* before the last command
Bare == rootDeps = <<>> /\ ~before["root"].charts.exists

\* on such a chart resolve returns updated = false, makes no charts
\* directory and does not invoke the Remote Fetcher
ResolveOfBare ==
  (Resolved /\ Bare) =>
    /\ Events("return", "root") # {}
    /\ last.op = "resolve" => (Returned /\ ~last.updated)
    /\ ~disk["root"].charts.exists
    /\ Events("fetch", "root") = {}

\* on such a chart the Cleaner completes and deletes nothing
CleanOfBare ==
  (Bare /\ Events("iterdir", "root") # {}) => (Returned /\ disk = before)

\* C23 (as stated): for a chart that declares no dependencies and has no
\* charts directory, resolve returns updated = false without making the
\* directory and without a fetch, and the clean that follows completes and
\* deletes nothing.
C23_CleanWithoutSubchartsDir == ResolveOfBare /\ CleanOfBare

====
